---- MODULE Spec2Model ----
(***************************************************************************)
(* Model of the stock/price synchronisation of seller.py (Ozon) and        *)
(* market.py (Yandex Market): quantity and price normalisation, the        *)
(* reconciliation of the inventory snapshot against a marketplace's offer  *)
(* ids (create_stocks, create_prices), the batcher (divide) and the sync   *)
(* cycles and upload functions that submit the batches.                    *)
(*                                                                         *)
(* Python strings that the code inspects character by character (the      *)
(* quantity and price cells) are sequences of one-character strings.       *)
(* Offer ids / product codes are opaque identifiers, modelled as naturals. *)
(***************************************************************************)
EXTENDS Integers, Sequences, FiniteSets, TLC

VARIABLES
    prog,            \* the entry point that is running
    target,          \* the marketplace account it works on: "ozon", "fbs", "dbs"
    pc,              \* position inside the entry point
    err,             \* the exception that ended it ("none" while there is none)
    watch_remnants,  \* inventory snapshot returned by download_stock
    catalog,         \* per target: the list get_offer_ids returns
    fetched,         \* the offer-id list as it was fetched (before any mutation)
    offer_ids,       \* the caller's offer_ids list (mutated by create_stocks)
    stocks,          \* the stocks list
    prices,          \* the prices list
    batches,         \* list(divide(...)) of the loop that is running
    idx,             \* 1-based index of the next batch of that loop
    requests,        \* log of the update_stocks / update_price calls, in order
    ret,             \* the value the entry point returned
    lst,             \* divide: argument lst
    n                \* divide: argument n

vars == <<prog, target, pc, err, watch_remnants, catalog, fetched, offer_ids,
          stocks, prices, batches, idx, requests, ret, lst, n>>

----------------------------------------------------------------------------
(* Bounds of the model *)

NumCodes == 2         \* product codes / offer ids 1..NumCodes in the small inputs
MaxInv == 2           \* longest inventory snapshot in the small inputs
MaxFullBatches == 2   \* most full batches in the lists given to the upload functions
MaxDivideLen == 5     \* longest list given to divide on its own
MaxDivideSize == 3    \* divide on its own is given sizes -MaxDivideSize..MaxDivideSize

----------------------------------------------------------------------------
(* Python built-ins used by the code *)

Digits == {"0", "1", "2", "3", "4", "5", "6", "7", "8", "9"}

DigitVal(c) ==
    CASE c = "0" -> 0 [] c = "1" -> 1 [] c = "2" -> 2 [] c = "3" -> 3
      [] c = "4" -> 4 [] c = "5" -> 5 [] c = "6" -> 6 [] c = "7" -> 7
      [] c = "8" -> 8 [] c = "9" -> 9

DigitChar(d) ==
    CASE d = 0 -> "0" [] d = 1 -> "1" [] d = 2 -> "2" [] d = 3 -> "3"
      [] d = 4 -> "4" [] d = 5 -> "5" [] d = 6 -> "6" [] d = 7 -> "7"
      [] d = 8 -> "8" [] d = 9 -> "9"

\* A cell of the spreadsheet is a Python str or a Python int.
PyStr(chars) == [type |-> "str", v |-> chars]
PyInt(i) == [type |-> "int", v |-> i]

RECURSIVE NatToChars(_)
NatToChars(i) ==
    IF i < 10 THEN <<DigitChar(i)>>
    ELSE NatToChars(i \div 10) \o <<DigitChar(i % 10)>>

\* str(x): a str is itself, an int is its decimal literal.
py_str(x) ==
    IF x.type = "str" THEN x.v
    ELSE IF x.v < 0 THEN <<"-">> \o NatToChars(-x.v) ELSE NatToChars(x.v)

\* s.strip() as int() applies it: leading and trailing blanks dropped.
RECURSIVE LStrip(_)
LStrip(s) == IF s # <<>> /\ s[1] = " " THEN LStrip(Tail(s)) ELSE s

RECURSIVE RStrip(_)
RStrip(s) ==
    IF s # <<>> /\ s[Len(s)] = " " THEN RStrip(SubSeq(s, 1, Len(s) - 1)) ELSE s

Strip(s) == RStrip(LStrip(s))

HasSign(s) == s # <<>> /\ s[1] \in {"+", "-"}

\* The digits part of an integer literal: digits, single underscores between them.
IsDigitsPart(d) ==
    /\ d # <<>>
    /\ \A i \in 1..Len(d) : d[i] \in Digits \cup {"_"}
    /\ d[1] # "_"
    /\ d[Len(d)] # "_"
    /\ \A i \in 1..(Len(d) - 1) : ~(d[i] = "_" /\ d[i + 1] = "_")

RECURSIVE DigitsValue(_)
DigitsValue(d) ==
    IF d = <<>> THEN 0
    ELSE LET c == d[Len(d)]
             rest == SubSeq(d, 1, Len(d) - 1)
         IN  IF c = "_" THEN DigitsValue(rest)
             ELSE 10 * DigitsValue(rest) + DigitVal(c)

\* int(x): [ok, v]; ok = FALSE is the ValueError of a malformed literal.
py_int(x) ==
    IF x.type = "int" THEN [ok |-> TRUE, v |-> x.v]
    ELSE LET t == Strip(x.v)
             d == IF HasSign(t) THEN Tail(t) ELSE t
         IN  IF ~IsDigitsPart(d) THEN [ok |-> FALSE, v |-> 0]
             ELSE [ok |-> TRUE,
                   v |-> IF HasSign(t) /\ t[1] = "-" THEN -DigitsValue(d)
                         ELSE DigitsValue(d)]

\* x in list
list_contains(list, x) == \E i \in 1..Len(list) : list[i] = x

\* Faulty variants of list.remove(x): the list is left as it is; the last
\* element is removed whatever x is.
list_remove_nothing(list, x) == list

list_pop_last(list, x) == SubSeq(list, 1, Len(list) - 1)

\* list.remove(x): the first occurrence of x is removed (x is in list).
list_remove(list, x) ==
    LET i == CHOOSE k \in 1..Len(list) :
                 list[k] = x /\ \A j \in 1..(k - 1) : list[j] # x
    IN  SubSeq(list, 1, i - 1) \o SubSeq(list, i + 1, Len(list))

----------------------------------------------------------------------------
(* Inputs *)

Codes == 1..NumCodes

Chars_gt10 == <<">", "1", "0">>

\* (quantity cell, price cell) pairs found in the rows of the small inventories
Rows == {
    <<PyStr(Chars_gt10), PyStr(<<"5", "'", "9", "9", "0", ".", "0", "0">>)>>,
    <<PyStr(<<"1">>), PyStr(<<"1", " ", "2", "3", "4", ".", "5", "6">>)>>,
    <<PyStr(<<"7">>), PyStr(<<"9", "9", "9">>)>>,
    <<PyStr(<<"-", "3">>), PyStr(<<"n", "/", "a">>)>>,
    <<PyStr(<<"1", "x">>), PyStr(<<"9", "9", "9">>)>>,
    <<PyInt(1), PyStr(<<"5", "0", "0", ".", "0", "0">>)>> }

Watches == { [Kod |-> c, Kolichestvo |-> r[1], Tsena |-> r[2]] :
                c \in Codes, r \in Rows }

SeqsUpTo(S, k) == UNION { [1..m -> S] : m \in 0..k }

Inventories == SeqsUpTo(Watches, MaxInv)

\* Offer ids identify the offers of a listing: a fetched list has no repeats.
NoRepeats(s) == \A i, j \in 1..Len(s) : i # j => s[i] # s[j]

OfferLists == { s \in SeqsUpTo(Codes, NumCodes) : NoRepeats(s) }

Targets == {"ozon", "fbs", "dbs"}

\* env.str("WAREHOUSE_FBS_ID") / env.str("WAREHOUSE_DBS_ID")
warehouse_id(campaign) == IF campaign = "fbs" THEN "wh_fbs" ELSE "wh_dbs"

\* datetime.utcnow() rendered by create_stocks
utcnow == "2024-01-01T00:00:00Z"

----------------------------------------------------------------------------
(* seller.py / market.py: quantity rule, price_conversion, divide *)

\* Faulty variant of the quantity rule: without the branch for "1".
quantity_to_stock_one_is_one(quantity) ==
    IF py_str(quantity) = Chars_gt10 THEN [ok |-> TRUE, v |-> 100]
    ELSE py_int(quantity)

\* The quantity rule of create_stocks: [ok, v]; ok = FALSE is int()'s ValueError.
quantity_to_stock(quantity) ==
    LET count == py_str(quantity)
    IN  IF count = Chars_gt10 THEN [ok |-> TRUE, v |-> 100]
        ELSE IF count = <<"1">> THEN [ok |-> TRUE, v |-> 0]
        ELSE py_int(quantity)

\* price.split(".")[0]
BeforeFirstDot(s) ==
    IF \E i \in 1..Len(s) : s[i] = "."
    THEN LET i == CHOOSE k \in 1..Len(s) :
                      s[k] = "." /\ \A j \in 1..(k - 1) : s[j] # "."
         IN  SubSeq(s, 1, i - 1)
    ELSE s

\* re.sub("[^0-9]", "", price.split(".")[0])
price_conversion(price) ==
    SelectSeq(BeforeFirstDot(price.v), LAMBDA c : c \in Digits)

\* len(range(0, stop, step)) for stop >= 0 and step # 0
range_len(stop, step) ==
    IF step > 0 THEN (stop + step - 1) \div step ELSE 0

\* lst[a:b] for 0 <= a <= b
slice(list, a, b) ==
    SubSeq(list, a + 1, IF b < Len(list) THEN b ELSE Len(list))

\* Faulty variants of divide: the last, shorter chunk is dropped; each chunk
\* takes one element too many.
divide_drop_partial(list, size) ==
    IF size = 0 THEN [ok |-> FALSE, chunks |-> <<>>]
    ELSE [ok |-> TRUE,
          chunks |-> [k \in 1..(IF size > 0 THEN Len(list) \div size ELSE 0) |->
                         slice(list, (k - 1) * size, k * size)]]

divide_overlapping(list, size) ==
    IF size = 0 THEN [ok |-> FALSE, chunks |-> <<>>]
    ELSE [ok |-> TRUE,
          chunks |-> [k \in 1..range_len(Len(list), size) |->
                         slice(list, (k - 1) * size, k * size + 1)]]

\* list(divide(lst, n)): [ok, chunks]; ok = FALSE is the ValueError that
\* range() raises for a zero step.
divide(list, size) ==
    IF size = 0 THEN [ok |-> FALSE, chunks |-> <<>>]
    ELSE [ok |-> TRUE,
          chunks |-> [k \in 1..range_len(Len(list), size) |->
                         slice(list, (k - 1) * size, (k - 1) * size + size)]]

----------------------------------------------------------------------------
(* seller.py / market.py: create_stocks, create_prices *)

seller_stock(offer_id, stock) == [offer_id |-> offer_id, stock |-> stock]

market_stock(sku, count, warehouse) ==
    [sku |-> sku, warehouseId |-> warehouse,
     items |-> <<[count |-> count, type |-> "FIT", updatedAt |-> utcnow]>>]

\* seller.create_stocks has no warehouse; market.create_stocks is given one.
NoWarehouse == "none"

stock_record(warehouse, code, stock) ==
    IF warehouse = NoWarehouse THEN seller_stock(code, stock)
    ELSE market_stock(code, stock, warehouse)

\* The first loop of create_stocks from record i on.
\* [raised, stocks, offer_ids]: raised = TRUE is the ValueError of int(),
\* which leaves offer_ids as mutated so far.
RECURSIVE stocks_loop(_, _, _, _, _)
stocks_loop(remnants, i, acc, ids, warehouse) ==
    IF i > Len(remnants)
    THEN [raised |-> FALSE, stocks |-> acc, offer_ids |-> ids]
    ELSE LET watch == remnants[i]
         IN  IF list_contains(ids, watch.Kod)
             THEN LET stock == quantity_to_stock(watch.Kolichestvo)
                  IN  IF ~stock.ok
                      THEN [raised |-> TRUE, stocks |-> <<>>, offer_ids |-> ids]
                      ELSE stocks_loop(remnants, i + 1,
                               Append(acc, stock_record(warehouse, watch.Kod, stock.v)),
                               list_remove(ids, watch.Kod), warehouse)
             ELSE stocks_loop(remnants, i + 1, acc, ids, warehouse)

\* The second loop of create_stocks: a zero record per offer id left in the list.
missing_stocks(ids, warehouse) ==
    [j \in 1..Len(ids) |-> stock_record(warehouse, ids[j], 0)]

create_stocks(remnants, ids, warehouse) ==
    LET r == stocks_loop(remnants, 1, <<>>, ids, warehouse)
    IN  IF r.raised THEN r
        ELSE [r EXCEPT !.stocks = r.stocks \o missing_stocks(r.offer_ids, warehouse)]

seller_create_stocks(remnants, ids) == create_stocks(remnants, ids, NoWarehouse)

market_create_stocks(remnants, ids, warehouse) ==
    create_stocks(remnants, ids, warehouse)

seller_price(watch) ==
    [auto_action_enabled |-> "UNKNOWN", currency_code |-> "RUB",
     offer_id |-> watch.Kod, old_price |-> "0",
     price |-> price_conversion(watch.Tsena)]

market_price(watch) ==
    [id |-> watch.Kod,
     price |-> [value |-> py_int(PyStr(price_conversion(watch.Tsena))).v,
                currencyId |-> "RUR"]]

\* The records of the inventory whose code is in offer_ids, in inventory order.
matched(remnants, ids) ==
    SelectSeq(remnants, LAMBDA watch : list_contains(ids, watch.Kod))

\* seller.create_prices: [raised, prices]; it never raises on str prices.
seller_create_prices(remnants, ids) ==
    LET m == matched(remnants, ids)
    IN  [raised |-> FALSE, prices |-> [i \in 1..Len(m) |-> seller_price(m[i])]]

\* market.create_prices: int() raises ValueError when no digit is left.
market_create_prices(remnants, ids) ==
    LET m == matched(remnants, ids)
    IN  IF \E i \in 1..Len(m) :
               ~py_int(PyStr(price_conversion(m[i].Tsena))).ok
        THEN [raised |-> TRUE, prices |-> <<>>]
        ELSE [raised |-> FALSE,
              prices |-> [i \in 1..Len(m) |-> market_price(m[i])]]

\* The offer id and the stock value of a stock record of either marketplace
StockId(rec) == IF "sku" \in DOMAIN rec THEN rec.sku ELSE rec.offer_id
StockValue(rec) == IF "sku" \in DOMAIN rec THEN rec.items[1].count ELSE rec.stock
PriceId(rec) == IF "id" \in DOMAIN rec THEN rec.id ELSE rec.offer_id

----------------------------------------------------------------------------
(* Spec: the reconciliation functions, called on an inventory and a list  *)
(* of offer ids. prog is the module whose functions are called.           *)

Init ==
    /\ prog \in {"seller", "market"}
    /\ target \in IF prog = "seller" THEN {"ozon"} ELSE {"fbs", "dbs"}
    /\ pc = "start"
    /\ err = "none"
    /\ watch_remnants \in Inventories
    /\ offer_ids \in OfferLists
    /\ fetched = offer_ids
    /\ catalog = [t \in Targets |-> offer_ids]
    /\ stocks = <<>>
    /\ prices = <<>>
    /\ batches = <<>>
    /\ idx = 1
    /\ requests = <<>>
    /\ ret = <<>>
    /\ lst = <<>>
    /\ n = 1

\* stocks = create_stocks(watch_remnants, offer_ids)            (seller.py)
SellerCreateStocks ==
    /\ prog = "seller"
    /\ pc = "start"
    /\ LET r == seller_create_stocks(watch_remnants, offer_ids)
       IN  /\ offer_ids' = r.offer_ids
           /\ stocks' = r.stocks
           /\ pc' = IF r.raised THEN "stocks_raised" ELSE "stocks_done"
           /\ err' = IF r.raised THEN "ValueError" ELSE err
    /\ UNCHANGED <<prog, target, watch_remnants, catalog, fetched, prices,
                   batches, idx, requests, ret, lst, n>>

\* stocks = create_stocks(watch_remnants, offer_ids, warehouse_id) (market.py)
MarketCreateStocks ==
    /\ prog = "market"
    /\ pc = "start"
    /\ LET r == market_create_stocks(watch_remnants, offer_ids,
                                     warehouse_id(target))
       IN  /\ offer_ids' = r.offer_ids
           /\ stocks' = r.stocks
           /\ pc' = IF r.raised THEN "stocks_raised" ELSE "stocks_done"
           /\ err' = IF r.raised THEN "ValueError" ELSE err
    /\ UNCHANGED <<prog, target, watch_remnants, catalog, fetched, prices,
                   batches, idx, requests, ret, lst, n>>

\* prices = create_prices(watch_remnants, offer_ids), on a fresh list or on
\* the list create_stocks was given                              (seller.py)
SellerCreatePrices ==
    /\ prog = "seller"
    /\ pc \in {"start", "stocks_done"}
    /\ LET r == seller_create_prices(watch_remnants, offer_ids)
       IN  /\ prices' = r.prices
           /\ pc' = IF pc = "start" THEN "prices_done" ELSE "stocks_prices_done"
    /\ UNCHANGED <<prog, target, err, watch_remnants, catalog, fetched,
                   offer_ids, stocks, batches, idx, requests, ret, lst, n>>

\* prices = create_prices(watch_remnants, offer_ids)             (market.py)
MarketCreatePrices ==
    /\ prog = "market"
    /\ pc \in {"start", "stocks_done"}
    /\ LET r == market_create_prices(watch_remnants, offer_ids)
       IN  /\ prices' = r.prices
           /\ pc' = IF r.raised THEN "prices_raised"
                    ELSE IF pc = "start" THEN "prices_done"
                    ELSE "stocks_prices_done"
           /\ err' = IF r.raised THEN "ValueError" ELSE err
    /\ UNCHANGED <<prog, target, watch_remnants, catalog, fetched, offer_ids,
                   stocks, batches, idx, requests, ret, lst, n>>

Next ==
    \/ SellerCreateStocks
    \/ MarketCreateStocks
    \/ SellerCreatePrices
    \/ MarketCreatePrices

Spec == Init /\ [][Next]_vars

----------------------------------------------------------------------------
(* Claims about create_stocks, checked under Spec *)

Range(s) == { s[i] : i \in 1..Len(s) }

InventoryCodes == { watch_remnants[i].Kod : i \in 1..Len(watch_remnants) }

StocksReturned == pc \in {"stocks_done", "stocks_prices_done"}

FirstMatched ==
    LET hit(i) == /\ watch_remnants[i].Kod \in Range(fetched)
                  /\ \A j \in 1..(i - 1) :
                       watch_remnants[j].Kod # watch_remnants[i].Kod
        at == SelectSeq([i \in 1..Len(watch_remnants) |-> i], hit)
    IN  [k \in 1..Len(at) |-> watch_remnants[at[k]]]

\* The stock value the quantity rules give each quantity cell of the inputs:
\* ">10" gives 100, "1" gives 0 (also as the number 1, whose str() is "1"),
\* another integer literal its value; any other cell is a format error.
ClaimedStock(quantity) ==
    CASE quantity = PyStr(<<">", "1", "0">>) -> 100
      [] quantity = PyStr(<<"1">>) -> 0
      [] quantity = PyInt(1) -> 0
      [] quantity = PyStr(<<"7">>) -> 7
      [] quantity = PyStr(<<"-", "3">>) -> -3

FormatError(quantity) ==
    quantity \notin {PyStr(<<">", "1", "0">>), PyStr(<<"1">>), PyInt(1),
                     PyStr(<<"7">>), PyStr(<<"-", "3">>)}

\* C8: for every inventory record matched by create_stocks the emitted stock
\* is 100 for ">10", 0 for "1", the integer value of any other numeric token;
\* a non-numeric token of a matched record makes create_stocks fail with
\* ValueError and no record is emitted.
C8_QuantityRules ==
    LET m == FirstMatched
    IN  /\ StocksReturned =>
              /\ Len(stocks) >= Len(m)
              /\ \A k \in 1..Len(m) :
                   /\ ~FormatError(m[k].Kolichestvo)
                   /\ k <= Len(stocks)
                   /\ StockId(stocks[k]) = m[k].Kod
                   /\ StockValue(stocks[k]) = ClaimedStock(m[k].Kolichestvo)
        /\ pc = "stocks_raised" =>
              /\ err = "ValueError"
              /\ stocks = <<>>
              /\ \E k \in 1..Len(m) : FormatError(m[k].Kolichestvo)

\* C8 witness: create_stocks returned after matching a record with quantity
\* "1" and then a record with quantity "7".
C8_Witness ==
    /\ pc = "stocks_done"
    /\ Len(FirstMatched) = 2
    /\ FirstMatched[1].Kolichestvo = PyStr(<<"1">>)
    /\ FirstMatched[2].Kolichestvo = PyStr(<<"7">>)
    /\ StockValue(stocks[1]) = 0
    /\ StockValue(stocks[2]) = 7

\* C9: every stock record produced by create_stocks, for an inventory whose
\* quantity tokens are ">10" or integer literals (negative ones included),
\* has an integer stock value >= 0.
C9_StockNeverNegative ==
    (/\ StocksReturned
     /\ \A i \in 1..Len(watch_remnants) :
          ~FormatError(watch_remnants[i].Kolichestvo))
    => \A i \in 1..Len(stocks) : StockValue(stocks[i]) >= 0

----------------------------------------------------------------------------
(* Steps shared by the sync cycles and the upload functions *)

\* Batch sizes passed to divide
SellerMainStockBatch == 100
SellerMainPriceBatch == 900
SellerUploadPriceBatch == 1000
SellerUploadStockBatch == 100
MarketMainStockBatch == 2000
MarketUploadPriceBatch == 500
MarketUploadStockBatch == 2000

\* offer_ids = get_offer_ids(...): the listing of the target, or the
\* HTTPError of raise_for_status, which ends the entry point at onFail.
GetOfferIds(p, here, next, onFail) ==
    /\ prog = p
    /\ pc = here
    /\ \E ok \in BOOLEAN :
         IF ok
         THEN /\ offer_ids' = catalog[target]
              /\ fetched' = catalog[target]
              /\ pc' = next
              /\ err' = err
         ELSE /\ pc' = onFail
              /\ err' = "HTTPError"
              /\ UNCHANGED <<offer_ids, fetched>>
    /\ UNCHANGED <<prog, target, watch_remnants, catalog, stocks, prices,
                   batches, idx, requests, ret, lst, n>>

\* Faulty variant of the loop turn: a failed submission is ignored and the
\* loop goes on with the next batch.
SubmitBatchSwallowingErrors(p, here, fn, next, onFail) ==
    /\ prog = p
    /\ pc = here
    /\ IF idx > Len(batches)
       THEN /\ pc' = next
            /\ UNCHANGED <<err, idx, requests>>
       ELSE \E ok \in BOOLEAN :
              /\ requests' = Append(requests,
                     [fn |-> fn, target |-> target, body |-> batches[idx], ok |-> ok])
              /\ idx' = idx + 1
              /\ pc' = here
              /\ err' = err
    /\ UNCHANGED <<prog, target, watch_remnants, catalog, fetched, offer_ids,
                   stocks, prices, batches, ret, lst, n>>

\* One turn of `for some in list(divide(...)): update(some, ...)`: the loop
\* ends at next when no batch is left; otherwise the next batch is submitted
\* by fn, whose HTTPError ends the entry point at onFail.
SubmitBatch(p, here, fn, next, onFail) ==
    /\ prog = p
    /\ pc = here
    /\ IF idx > Len(batches)
       THEN /\ pc' = next
            /\ UNCHANGED <<err, idx, requests>>
       ELSE \E ok \in BOOLEAN :
              /\ requests' = Append(requests,
                     [fn |-> fn, target |-> target, body |-> batches[idx], ok |-> ok])
              /\ IF ok
                 THEN /\ idx' = idx + 1
                      /\ pc' = here
                      /\ err' = err
                 ELSE /\ idx' = idx
                      /\ pc' = onFail
                      /\ err' = "HTTPError"
    /\ UNCHANGED <<prog, target, watch_remnants, catalog, fetched, offer_ids,
                   stocks, prices, batches, ret, lst, n>>

\* stocks = create_stocks(...) and list(divide(stocks, size)); the ValueError
\* of create_stocks ends the entry point at onFail.
CreateStocksAndDivide(p, here, warehouse, size, next, onFail) ==
    /\ prog = p
    /\ pc = here
    /\ LET r == create_stocks(watch_remnants, offer_ids, warehouse)
       IN  /\ offer_ids' = r.offer_ids
           /\ IF r.raised
              THEN /\ pc' = onFail
                   /\ err' = "ValueError"
                   /\ UNCHANGED <<stocks, batches, idx>>
              ELSE /\ stocks' = r.stocks
                   /\ batches' = divide(r.stocks, size).chunks
                   /\ idx' = 1
                   /\ pc' = next
                   /\ err' = err
    /\ UNCHANGED <<prog, target, watch_remnants, catalog, fetched, prices,
                   requests, ret, lst, n>>

\* prices = create_prices(...) and list(divide(prices, size)); r is the
\* outcome of create_prices, whose ValueError ends the entry point at onFail.
CreatePricesAndDivide(p, here, r, size, next, onFail) ==
    /\ prog = p
    /\ pc = here
    /\ IF r.raised
       THEN /\ pc' = onFail
            /\ err' = "ValueError"
            /\ UNCHANGED <<prices, batches, idx>>
       ELSE /\ prices' = r.prices
            /\ batches' = divide(r.prices, size).chunks
            /\ idx' = 1
            /\ pc' = next
            /\ err' = err
    /\ UNCHANGED <<prog, target, watch_remnants, catalog, fetched, offer_ids,
                   stocks, requests, ret, lst, n>>

----------------------------------------------------------------------------
(* SpecSync: the sync cycles seller.main and market.main *)

InitSync ==
    /\ prog \in {"seller.main", "market.main"}
    /\ target = IF prog = "seller.main" THEN "ozon" ELSE "fbs"
    /\ pc = IF prog = "seller.main" THEN "get_offer_ids" ELSE "download_stock"
    /\ err = "none"
    /\ watch_remnants \in Inventories
    /\ catalog \in [Targets -> OfferLists]
    /\ prog = "seller.main" => catalog["fbs"] = <<>> /\ catalog["dbs"] = <<>>
    /\ prog = "market.main" => catalog["ozon"] = <<>>
    /\ fetched = <<>>
    /\ offer_ids = <<>>
    /\ stocks = <<>>
    /\ prices = <<>>
    /\ batches = <<>>
    /\ idx = 1
    /\ requests = <<>>
    /\ ret = <<>>
    /\ lst = <<>>
    /\ n = 1

\* watch_remnants = download_stock(): the snapshot, or the HTTPError of the
\* download
DownloadStock(p, here, next, onFail) ==
    /\ prog = p
    /\ pc = here
    /\ \E ok \in BOOLEAN :
         IF ok THEN pc' = next /\ err' = err
         ELSE pc' = onFail /\ err' = "HTTPError"
    /\ UNCHANGED <<prog, target, watch_remnants, catalog, fetched, offer_ids,
                   stocks, prices, batches, idx, requests, ret, lst, n>>

\* seller.main: every exception is caught and printed, the cycle is over.
SellerMainGetOfferIds ==
    GetOfferIds("seller.main", "get_offer_ids", "download_stock", "done")

SellerMainDownloadStock ==
    DownloadStock("seller.main", "download_stock", "create_stocks", "done")

SellerMainCreateStocks ==
    CreateStocksAndDivide("seller.main", "create_stocks", NoWarehouse,
                          SellerMainStockBatch, "update_stocks", "done")

SellerMainUpdateStocks ==
    SubmitBatch("seller.main", "update_stocks", "update_stocks",
                "create_prices", "done")

\* create_prices is given the offer_ids list that create_stocks has mutated.
SellerMainCreatePrices ==
    CreatePricesAndDivide("seller.main", "create_prices",
                          seller_create_prices(watch_remnants, offer_ids),
                          SellerMainPriceBatch, "update_price", "done")

SellerMainUpdatePrice ==
    SubmitBatch("seller.main", "update_price", "update_price", "done", "done")

\* market.main: download_stock is called outside the try block.
MarketMainDownloadStock ==
    DownloadStock("market.main", "download_stock", "get_offer_ids", "raised")

MarketMainGetOfferIds ==
    GetOfferIds("market.main", "get_offer_ids", "create_stocks", "done")

MarketMainCreateStocks ==
    CreateStocksAndDivide("market.main", "create_stocks", warehouse_id(target),
                          MarketMainStockBatch, "update_stocks", "done")

MarketMainUpdateStocks ==
    SubmitBatch("market.main", "update_stocks", "update_stocks",
                "upload_prices", "done")

\* upload_prices(watch_remnants, campaign_id, market_token): upload_prices is
\* an `async def` and the call is not awaited, so it only builds a coroutine
\* object, which is dropped: no statement of upload_prices runs. The cycle
\* goes on with the DBS campaign, or ends after it.
MarketMainUploadPrices ==
    /\ prog = "market.main"
    /\ pc = "upload_prices"
    /\ IF target = "fbs"
       THEN target' = "dbs" /\ pc' = "get_offer_ids"
       ELSE target' = target /\ pc' = "done"
    /\ UNCHANGED <<prog, err, watch_remnants, catalog, fetched, offer_ids,
                   stocks, prices, batches, idx, requests, ret, lst, n>>

NextSync ==
    \/ SellerMainGetOfferIds
    \/ SellerMainDownloadStock
    \/ SellerMainCreateStocks
    \/ SellerMainUpdateStocks
    \/ SellerMainCreatePrices
    \/ SellerMainUpdatePrice
    \/ MarketMainDownloadStock
    \/ MarketMainGetOfferIds
    \/ MarketMainCreateStocks
    \/ MarketMainUpdateStocks
    \/ MarketMainUploadPrices

SpecSync == InitSync /\ [][NextSync]_vars

----------------------------------------------------------------------------
(* Claims about the sync cycles, checked under SpecSync *)

\* C2: in every sync cycle the price records computed for a target have as
\* their offer ids exactly the inventory codes that are in the offer-id list
\* as it was fetched at the start of the cycle; in particular in seller.main,
\* where create_prices runs after create_stocks on the same offer_ids list.
C2_PricesCoverFetchedIds ==
    (prog = "seller.main" /\ pc = "update_price") =>
        { PriceId(prices[i]) : i \in 1..Len(prices) }
            = InventoryCodes \cap Range(fetched)

\* The price of every inventory record converts (create_prices cannot raise).
AllPricesConvert ==
    \A i \in 1..Len(watch_remnants) :
        price_conversion(watch_remnants[i].Tsena) # <<>>

\* Position of a submission in the order FBS stocks, FBS prices, DBS stocks,
\* DBS prices
SubmissionRank(r) ==
    (IF r.target = "fbs" THEN 0 ELSE 2) + (IF r.fn = "update_stocks" THEN 1 ELSE 2)

\* C3: in a market.main cycle in which no collaborator call fails, each of
\* the channels FBS, DBS goes through fetch, reconcile, every stock batch,
\* every price batch in that order: every price record of the channel (one
\* per inventory code among the channel's offer ids) has been submitted
\* through update_price when the cycle ends.
C3_EveryPriceSubmitted ==
    (prog = "market.main" /\ pc = "done" /\ err = "none" /\ AllPricesConvert) =>
        /\ \A i, j \in 1..Len(requests) :
             i < j => SubmissionRank(requests[i]) <= SubmissionRank(requests[j])
        /\ \A t \in {"fbs", "dbs"} :
             \A code \in InventoryCodes \cap Range(catalog[t]) :
                \E i \in 1..Len(requests) :
                   /\ requests[i].fn = "update_price"
                   /\ requests[i].target = t
                   /\ \E k \in 1..Len(requests[i].body) :
                        PriceId(requests[i].body[k]) = code

----------------------------------------------------------------------------
(* SpecUpload: the upload functions of both modules, run to completion by  *)
(* a caller that awaits them, on listings long enough for several batches. *)

UploadStocksFns == {"seller.upload_stocks", "market.upload_stocks"}
UploadPricesFns == {"seller.upload_prices", "market.upload_prices"}

\* The size the upload function hands to divide
BatchSize(p) ==
    CASE p = "seller.upload_stocks" -> SellerUploadStockBatch
      [] p = "seller.upload_prices" -> SellerUploadPriceBatch
      [] p = "market.upload_stocks" -> MarketUploadStockBatch
      [] p = "market.upload_prices" -> MarketUploadPriceBatch

\* A listing of L offers
Ids(L) == [i \in 1..L |-> i]

\* An inventory of K products, all with quantity "7" and price "999"
BigInventory(K) ==
    [i \in 1..K |-> [Kod |-> i, Kolichestvo |-> PyStr(<<"7">>),
                     Tsena |-> PyStr(<<"9", "9", "9">>)]]

\* List lengths around the multiples of a batch size
Lengths(size) == { q * size + r : q \in 0..MaxFullBatches, r \in {0, 1, 500} }

InitUpload ==
    /\ prog \in UploadStocksFns \cup UploadPricesFns
    /\ target \in IF prog \in {"seller.upload_stocks", "seller.upload_prices"}
                  THEN {"ozon"} ELSE {"fbs", "dbs"}
    /\ pc = "get_offer_ids"
    /\ err = "none"
    /\ \E L \in Lengths(BatchSize(prog)) :
         /\ catalog = [t \in Targets |-> IF t = target THEN Ids(L) ELSE <<>>]
         /\ IF prog \in UploadStocksFns
            THEN watch_remnants \in SeqsUpTo({ w \in Watches : w.Kod = 1 }, 1)
            ELSE watch_remnants = BigInventory(L + 1)
    /\ fetched = <<>>
    /\ offer_ids = <<>>
    /\ stocks = <<>>
    /\ prices = <<>>
    /\ batches = <<>>
    /\ idx = 1
    /\ requests = <<>>
    /\ ret = <<>>
    /\ lst = <<>>
    /\ n = 1

\* The function returns value; pc = "returned"
Return(p, value) ==
    /\ prog = p
    /\ pc = "return"
    /\ ret' = value
    /\ pc' = "returned"
    /\ UNCHANGED <<prog, target, err, watch_remnants, catalog, fetched,
                   offer_ids, stocks, prices, batches, idx, requests, lst, n>>

\* not_empty = list(filter(lambda stock: stock count != 0, stocks))
not_empty(list) == SelectSeq(list, LAMBDA rec : StockValue(rec) # 0)

\* seller.upload_stocks
SellerUploadStocksGetOfferIds ==
    GetOfferIds("seller.upload_stocks", "get_offer_ids", "create_stocks", "raised")

SellerUploadStocksCreate ==
    CreateStocksAndDivide("seller.upload_stocks", "create_stocks", NoWarehouse,
                          SellerUploadStockBatch, "update_stocks", "raised")

SellerUploadStocksUpdate ==
    SubmitBatch("seller.upload_stocks", "update_stocks", "update_stocks",
                "return", "raised")

SellerUploadStocksReturn ==
    Return("seller.upload_stocks", <<not_empty(stocks), stocks>>)

\* seller.upload_prices
SellerUploadPricesGetOfferIds ==
    GetOfferIds("seller.upload_prices", "get_offer_ids", "create_prices", "raised")

SellerUploadPricesCreate ==
    CreatePricesAndDivide("seller.upload_prices", "create_prices",
                          seller_create_prices(watch_remnants, offer_ids),
                          SellerUploadPriceBatch, "update_price", "raised")

SellerUploadPricesUpdate ==
    SubmitBatch("seller.upload_prices", "update_price", "update_price",
                "return", "raised")

SellerUploadPricesReturn == Return("seller.upload_prices", prices)

\* market.upload_stocks
MarketUploadStocksGetOfferIds ==
    GetOfferIds("market.upload_stocks", "get_offer_ids", "create_stocks", "raised")

MarketUploadStocksCreate ==
    CreateStocksAndDivide("market.upload_stocks", "create_stocks",
                          warehouse_id(target), MarketUploadStockBatch,
                          "update_stocks", "raised")

MarketUploadStocksUpdate ==
    SubmitBatch("market.upload_stocks", "update_stocks", "update_stocks",
                "return", "raised")

MarketUploadStocksReturn ==
    Return("market.upload_stocks", <<not_empty(stocks), stocks>>)

\* market.upload_prices
MarketUploadPricesGetOfferIds ==
    GetOfferIds("market.upload_prices", "get_offer_ids", "create_prices", "raised")

MarketUploadPricesCreate ==
    CreatePricesAndDivide("market.upload_prices", "create_prices",
                          market_create_prices(watch_remnants, offer_ids),
                          MarketUploadPriceBatch, "update_price", "raised")

MarketUploadPricesUpdate ==
    SubmitBatch("market.upload_prices", "update_price", "update_price",
                "return", "raised")

MarketUploadPricesReturn == Return("market.upload_prices", prices)

NextUpload ==
    \/ SellerUploadStocksGetOfferIds
    \/ SellerUploadStocksCreate
    \/ SellerUploadStocksUpdate
    \/ SellerUploadStocksReturn
    \/ SellerUploadPricesGetOfferIds
    \/ SellerUploadPricesCreate
    \/ SellerUploadPricesUpdate
    \/ SellerUploadPricesReturn
    \/ MarketUploadStocksGetOfferIds
    \/ MarketUploadStocksCreate
    \/ MarketUploadStocksUpdate
    \/ MarketUploadStocksReturn
    \/ MarketUploadPricesGetOfferIds
    \/ MarketUploadPricesCreate
    \/ MarketUploadPricesUpdate
    \/ MarketUploadPricesReturn

SpecUpload == InitUpload /\ [][NextUpload]_vars

----------------------------------------------------------------------------
(* Claims about the batch submission loops, checked under SpecUpload *)

\* The collaborator an upload function submits to
UpdateFn(p) == IF p \in UploadStocksFns THEN "update_stocks" ELSE "update_price"

\* C4: in the batch loop of upload_stocks and upload_prices, when the
\* submission of batch N of M fails, batches 1..N-1 have each been submitted
\* exactly once before it, in order, no batch is submitted after the failure,
\* none is retried, and the error leaves the upload function (it does not
\* return).
C4_FailureStopsTheLoop ==
    \A i \in 1..Len(requests) :
        /\ i <= Len(batches)
        /\ requests[i].fn = UpdateFn(prog)
        /\ requests[i].target = target
        /\ requests[i].body = batches[i]
        /\ i < Len(requests) => requests[i].ok
        /\ ~requests[i].ok => pc = "raised" /\ err = "HTTPError" /\ ret = <<>>

\* C4 witness: the second of at least three batches failed after the first
\* was submitted.
C4_Witness ==
    /\ pc = "raised"
    /\ Len(batches) >= 3
    /\ Len(requests) = 2
    /\ requests[1].ok
    /\ ~requests[2].ok

RECURSIVE Bodies(_)
Bodies(reqs) ==
    IF reqs = <<>> THEN <<>> ELSE reqs[1].body \o Bodies(Tail(reqs))

\* C5: when no submission fails, upload_stocks with L stock records and
\* batch size n (100 for Ozon, 2000 for Yandex) makes exactly ceil(L/n)
\* update_stocks calls, each with at most n records, and the submitted
\* batches concatenated in call order are the full stock list.
C5_OneCallPerBatch ==
    (prog \in UploadStocksFns /\ pc = "returned") =>
        LET size == IF prog = "seller.upload_stocks" THEN 100 ELSE 2000
            L == Len(stocks)
        IN  /\ Len(requests) = (IF L % size = 0 THEN L \div size
                                ELSE L \div size + 1)
            /\ \A i \in 1..Len(requests) :
                 /\ requests[i].fn = "update_stocks"
                 /\ requests[i].ok
                 /\ Len(requests[i].body) <= size
                 /\ Len(requests[i].body) >= 1
            /\ Bodies(requests) = stocks
            /\ ret[2] = stocks

\* C5 witness: market.upload_stocks returned after submitting 2500 stock
\* records in two calls of 2000 and 500 records.
C5_Witness ==
    /\ prog = "market.upload_stocks"
    /\ pc = "returned"
    /\ Len(stocks) = 2500
    /\ Len(requests) = 2
    /\ Len(requests[1].body) = 2000
    /\ Len(requests[2].body) = 500

----------------------------------------------------------------------------
(* SpecDivide: list(divide(lst, n)) on its own *)

DivideItems == {"a", "b"}

InitDivide ==
    /\ prog = "divide"
    /\ target = "ozon"
    /\ pc = "start"
    /\ err = "none"
    /\ lst \in SeqsUpTo(DivideItems, MaxDivideLen)
    /\ n \in (-MaxDivideSize)..MaxDivideSize
    /\ watch_remnants = <<>>
    /\ catalog = [t \in Targets |-> <<>>]
    /\ fetched = <<>>
    /\ offer_ids = <<>>
    /\ stocks = <<>>
    /\ prices = <<>>
    /\ batches = <<>>
    /\ idx = 1
    /\ requests = <<>>
    /\ ret = <<>>

\* batches = list(divide(lst, n)), or the ValueError of range()
CallDivide ==
    /\ prog = "divide"
    /\ pc = "start"
    /\ LET r == divide(lst, n)
       IN  /\ batches' = r.chunks
           /\ pc' = IF r.ok THEN "returned" ELSE "raised"
           /\ err' = IF r.ok THEN err ELSE "ValueError"
    /\ UNCHANGED <<prog, target, watch_remnants, catalog, fetched, offer_ids,
                   stocks, prices, idx, requests, ret, lst, n>>

NextDivide == CallDivide

SpecDivide == InitDivide /\ [][NextDivide]_vars

RECURSIVE Concat(_)
Concat(chunks) ==
    IF chunks = <<>> THEN <<>> ELSE chunks[1] \o Concat(Tail(chunks))

\* C6: for every list lst and size n > 0, divide(lst, n) yields chunks whose
\* concatenation in order is lst; every chunk but the last has exactly n
\* elements, the last has 1..n elements, and an empty lst yields no chunk.
C6_ChunksPartitionTheList ==
    (prog = "divide" /\ pc # "start" /\ n > 0) =>
        /\ pc = "returned"
        /\ Concat(batches) = lst
        /\ \A k \in 1..(Len(batches) - 1) : Len(batches[k]) = n
        /\ batches # <<>> =>
             Len(batches[Len(batches)]) \in 1..n
        /\ lst = <<>> => batches = <<>>

\* C6 witness: a list of five elements divided by 2 into chunks of 2, 2, 1.
C6_Witness ==
    /\ prog = "divide"
    /\ pc = "returned"
    /\ n = 2
    /\ Len(lst) = 5
    /\ Len(batches) = 3
    /\ Len(batches[3]) = 1

\* C7: for every list lst and size n <= 0, divide(lst, n) fails with an
\* invalid-argument error and produces no sequence of chunks.
C7_NonPositiveSizeRaises ==
    (prog = "divide" /\ pc # "start" /\ n <= 0) =>
        pc = "raised" /\ err = "ValueError"

----------------------------------------------------------------------------
(* Claim about repeated inventory codes, checked under Spec *)

\* The codes that two or more inventory records carry
RepeatedCodes ==
    { c \in InventoryCodes :
        Cardinality({ i \in 1..Len(watch_remnants) : watch_remnants[i].Kod = c }) >= 2 }

\* C11: when two or more inventory records have the same code and that code
\* is among the marketplace's offer ids, reconciliation emits exactly one
\* stock record (create_stocks) and exactly one price record (create_prices,
\* given the offer ids as fetched) with that offer id.
C11_NoDuplicateRecords ==
    \A c \in RepeatedCodes \cap Range(fetched) :
        /\ StocksReturned =>
             Cardinality({ i \in 1..Len(stocks) : StockId(stocks[i]) = c }) = 1
        /\ pc = "prices_done" =>
             Cardinality({ i \in 1..Len(prices) : PriceId(prices[i]) = c }) = 1

====
